---- MODULE Spec2Model ----
(***************************************************************************)
(* Model of the treehouse visitor program (src/src/main.rs).               *)
(*                                                                         *)
(* Text that the program compares or transforms (names, raw input lines)   *)
(* is a sequence of one-character strings; text that is only printed       *)
(* (greetings, notes) is a string.  An output line is the format string    *)
(* of the println! that produced it together with its arguments.           *)
(***************************************************************************)
EXTENDS Integers, Sequences, FiniteSets, TLC

VARIABLES
    visitor_list,   \* main: the Vec<Visitor>
    pc,             \* position of main
    name,           \* main: the local `name` of the current iteration
    known_visitor,  \* main: the Option returned by find; 0 is None, i is Some(&visitor_list[i])
    out,            \* standard output, one entry per println!
    err,            \* standard error: the panic message, if any
    exit_code,      \* process exit status, NoExit while the process runs
    iter,           \* number of loop iterations started
    mark,           \* history: Len(out) when the current iteration started
    list0,          \* history: visitor_list when the current iteration started
    greeted,        \* history: one record per executed greet_visitor call, in order
    your_name,      \* what_is_your_name: the line buffer; empty outside the function
    eof             \* history: the last read returned Ok(0), the end of the input

vars == <<visitor_list, pc, name, known_visitor, out, err, exit_code,
          iter, mark, list0, greeted, your_name, eof>>

----------------------------------------------------------------------------
(* Bounds *)

MaxIter == 3        \* loop iterations per run
MaxLen == 3         \* length of an enumerated raw input line
MaxReg == 2         \* registry length in the function-level specification

----------------------------------------------------------------------------
(* Text *)

\* Characters that raw input lines are enumerated over.
Alphabet == {"w", "W", " ", "\n"}

\* Chars s.t. char::is_whitespace holds (the ones that occur in the model).
IsWhitespace(c) == c \in {" ", "\n", "\t", "\r"}

\* char lower-casing, for the letters that occur in the model.
CharToLower(c) ==
    CASE c = "B" -> "b" [] c = "W" -> "w" [] c = "F" -> "f"
      [] c = "S" -> "s" [] OTHER -> c

\* str::to_lowercase
ToLowercase(s) == [i \in 1..Len(s) |-> CharToLower(s[i])]

RECURSIVE TrimStart(_)
TrimStart(s) ==
    IF s = <<>> THEN <<>>
    ELSE IF IsWhitespace(Head(s)) THEN TrimStart(Tail(s)) ELSE s

RECURSIVE TrimEnd(_)
TrimEnd(s) ==
    IF s = <<>> THEN <<>>
    ELSE IF IsWhitespace(s[Len(s)]) THEN TrimEnd(SubSeq(s, 1, Len(s) - 1)) ELSE s

\* A trim of the end of the line only (trim_end).
TrimEndOnlyMutant(s) == TrimEnd(s)

\* str::trim
Trim(s) == TrimEnd(TrimStart(s))

\* what_is_your_name, after a successful read: your_name.trim().to_lowercase()
Normalize(raw) == ToLowercase(Trim(raw))

RECURSIVE SeqsUpTo(_, _)
SeqsUpTo(S, n) ==
    IF n = 0 THEN {<<>>}
    ELSE LET shorter == SeqsUpTo(S, n - 1)
         IN  shorter \cup {Append(s, c) : s \in {t \in shorter : Len(t) = n - 1}, c \in S}

\* Lines that name the seed visitors, in several spellings.
SeedLines ==
    { <<" ", " ", "B", "e", "r", "t", "\n">>,
      <<"b", "e", "r", "t", "\n">>,
      <<"S", "t", "e", "v", "e", "\r", "\n">>,
      <<"s", "t", "e", "v", "e">>,
      <<"F", "r", "e", "d", "\n">>,
      <<"f", "r", "e", "d", "\n">> }

\* The lines read_line can deliver.  <<>> is end of input (Ok(0)).
RawLines == SeqsUpTo(Alphabet, MaxLen) \cup SeedLines

----------------------------------------------------------------------------
(* Visitor, VisitorAction *)

Accept == [tag |-> "Accept"]
AcceptWithNote(note) == [tag |-> "AcceptWithNote", note |-> note]
Refuse == [tag |-> "Refuse"]
Probation == [tag |-> "Probation"]

\* A constructor that stores the name as given.
NewVisitorRawNameMutant(n, greeting, action, age) ==
    [name |-> n, action |-> action, age |-> age, greeting |-> greeting]

\* Visitor::new
NewVisitor(n, greeting, action, age) ==
    [name |-> ToLowercase(n), action |-> action, age |-> age, greeting |-> greeting]

\* The vec! of main
SeedList ==
    << NewVisitor(<<"B", "e", "r", "t">>, "Hello Bert, enjoy your treehouse.", Accept, 45),
       NewVisitor(<<"s", "t", "e", "v", "e">>, "Hi Steve. Your milk is in the fridge.",
                  AcceptWithNote("Lactose-free milk is in the fridge"), 15),
       NewVisitor(<<"f", "r", "e", "d">>, "Wow, who invited Fred?", Refuse, 30) >>

----------------------------------------------------------------------------
(* Output lines *)

Line(fmt, text, n, list) == [fmt |-> fmt, text |-> text, name |-> n, list |-> list]

PromptLine == Line("Hello, what's your name? (Leave empty and press ENTER to quit)", "", <<>>, <<>>)
HelloLine(n) == Line("Hello {}", "", n, <<>>)
DebugLine(n) == Line("{:?}", "", n, <<>>)
TextLine(text) == Line("{}", text, <<>>, <<>>)
WelcomeLine(n) == Line("Welcome to the tree house, {}", "", n, <<>>)
AlcoholLine(n) == Line("Do not serve alcohol to {}", "", n, <<>>)
ProbationLine(n) == Line("{} is now a probationary member", "", n, <<>>)
RefuseLine(n) == Line("Do not allow {} in!", "", n, <<>>)
NotOnListLine(n) == Line("{} is not on the visitor list.", "", n, <<>>)
FinalHeaderLine == Line("The final list of visitors:", "", <<>>, <<>>)
DumpLine(list) == Line("{:#?}", "", <<>>, list)

\* Age below which AcceptWithNote visitors get the alcohol line.
DrinkingAge == 21

\* greet_visitor with the Refuse arm sharing the Accept arm.
GreetVisitorRefuseMutant(self) ==
    <<TextLine(self.greeting)>> \o
    CASE self.action.tag \in {"Accept", "Refuse"} -> <<WelcomeLine(self.name)>>
      [] self.action.tag = "AcceptWithNote" ->
            <<WelcomeLine(self.name), TextLine(self.action.note)>>
            \o (IF self.age < DrinkingAge THEN <<AlcoholLine(self.name)>> ELSE <<>>)
      [] self.action.tag = "Probation" -> <<ProbationLine(self.name)>>

\* greet_visitor with the age test off by one.
GreetVisitorAgeMutant(self) ==
    <<TextLine(self.greeting)>> \o
    CASE self.action.tag = "Accept" -> <<WelcomeLine(self.name)>>
      [] self.action.tag = "AcceptWithNote" ->
            <<WelcomeLine(self.name), TextLine(self.action.note)>>
            \o (IF self.age <= DrinkingAge THEN <<AlcoholLine(self.name)>> ELSE <<>>)
      [] self.action.tag = "Probation" -> <<ProbationLine(self.name)>>
      [] self.action.tag = "Refuse" -> <<RefuseLine(self.name)>>

\* greet_visitor with the Accept arm printing a note as well.
GreetVisitorAcceptNoteMutant(self) ==
    <<TextLine(self.greeting)>> \o
    CASE self.action.tag = "Accept" ->
            <<WelcomeLine(self.name), TextLine("Lactose-free milk is in the fridge")>>
      [] self.action.tag = "AcceptWithNote" ->
            <<WelcomeLine(self.name), TextLine(self.action.note)>>
            \o (IF self.age < DrinkingAge THEN <<AlcoholLine(self.name)>> ELSE <<>>)
      [] self.action.tag = "Probation" -> <<ProbationLine(self.name)>>
      [] self.action.tag = "Refuse" -> <<RefuseLine(self.name)>>

\* greet_visitor with the Probation arm welcoming the visitor.
GreetVisitorProbationMutant(self) ==
    <<TextLine(self.greeting)>> \o
    CASE self.action.tag \in {"Accept", "Probation"} -> <<WelcomeLine(self.name)>>
      [] self.action.tag = "AcceptWithNote" ->
            <<WelcomeLine(self.name), TextLine(self.action.note)>>
            \o (IF self.age < DrinkingAge THEN <<AlcoholLine(self.name)>> ELSE <<>>)
      [] self.action.tag = "Refuse" -> <<RefuseLine(self.name)>>

\* Visitor::greet_visitor: the lines it prints, in order.
GreetVisitor(self) ==
    <<TextLine(self.greeting)>> \o
    CASE self.action.tag = "Accept" -> <<WelcomeLine(self.name)>>
      [] self.action.tag = "AcceptWithNote" ->
            <<WelcomeLine(self.name), TextLine(self.action.note)>>
            \o (IF self.age < DrinkingAge THEN <<AlcoholLine(self.name)>> ELSE <<>>)
      [] self.action.tag = "Probation" -> <<ProbationLine(self.name)>>
      [] self.action.tag = "Refuse" -> <<RefuseLine(self.name)>>

----------------------------------------------------------------------------
(* Lookup *)

\* Iterator::find over visitor_list.iter(), from position i on.
RECURSIVE FindFrom(_, _, _)
FindFrom(list, key, i) ==
    IF i > Len(list) THEN 0
    ELSE IF list[i].name = key THEN i
    ELSE FindFrom(list, key, i + 1)

\* A scan that keeps the last match instead of stopping at the first.
RECURSIVE FindLastFrom(_, _, _)
FindLastFrom(list, key, i) ==
    IF i < 1 THEN 0
    ELSE IF list[i].name = key THEN i
    ELSE FindLastFrom(list, key, i - 1)

FindLastMutant(list, key) == FindLastFrom(list, key, Len(list))

\* A scan that stops one entry before the end.
FindSkipLastMutant(list, key) ==
    IF list = <<>> THEN 0 ELSE FindFrom(SubSeq(list, 1, Len(list) - 1), key, 1)

\* visitor_list.iter().find(|visitor| visitor.name == name): 0 is None
Find(list, key) == FindFrom(list, key, 1)

----------------------------------------------------------------------------
(* The process *)

NoExit == -1
SuccessExit == 0
PanicExit == 101

Running == pc \in {"prompt", "read", "echo", "find", "match"}
Terminated == pc = "done"
Aborted == pc = "panicked"

Init ==
    /\ visitor_list = SeedList
    /\ pc = "prompt"
    /\ name = <<>>
    /\ known_visitor = 0
    /\ out = <<>>
    /\ err = <<>>
    /\ exit_code = NoExit
    /\ iter = 0
    /\ mark = 0
    /\ list0 = SeedList
    /\ greeted = <<>>
    /\ your_name = <<>>
    /\ eof = FALSE

\* loop { println!("Hello, what's your name? ...")
Prompt ==
    /\ pc = "prompt"
    /\ iter < MaxIter
    /\ out' = Append(out, PromptLine)
    /\ pc' = "read"
    /\ iter' = iter + 1
    /\ mark' = Len(out)
    /\ list0' = visitor_list
    /\ UNCHANGED <<visitor_list, name, known_visitor, err, exit_code, greeted, your_name, eof>>

\* A read that takes Ok(0), the end of the input, for a failure.
ReadNameEofFailsMutant ==
    /\ pc = "read"
    /\ \E raw \in RawLines :
          /\ eof' = (raw = <<>>)
          /\ IF raw = <<>>
             THEN /\ err' = Append(err, "failed to readline")
                  /\ exit_code' = PanicExit
                  /\ pc' = "panicked"
                  /\ name' = name
             ELSE /\ name' = Normalize(raw)
                  /\ pc' = "echo"
                  /\ UNCHANGED <<err, exit_code>>
    /\ UNCHANGED <<visitor_list, known_visitor, out, iter, mark, list0, greeted, your_name>>

\* let name = what_is_your_name();  read_line returned Ok
ReadName ==
    /\ pc = "read"
    /\ \E raw \in RawLines :
          /\ name' = Normalize(raw)
          /\ eof' = (raw = <<>>)
    /\ pc' = "echo"
    /\ UNCHANGED <<visitor_list, known_visitor, out, err, exit_code, iter, mark, list0, greeted, your_name>>

\* A failed read that reports the error and reads again.
ReadFailRetryMutant ==
    /\ pc = "read"
    /\ err = <<>>
    /\ err' = Append(err, "failed to readline")
    /\ pc' = "read"
    /\ UNCHANGED <<visitor_list, name, known_visitor, out, exit_code, iter, mark, list0, greeted, your_name, eof>>

\* what_is_your_name: read_line returned Err, expect panics
ReadFail ==
    /\ pc = "read"
    /\ err' = Append(err, "failed to readline")
    /\ exit_code' = PanicExit
    /\ pc' = "panicked"
    /\ UNCHANGED <<visitor_list, name, known_visitor, out, iter, mark, list0, greeted, your_name, eof>>

\* The two echo lines in the other order.
EchoDebugFirstMutant ==
    /\ pc = "echo"
    /\ out' = out \o <<DebugLine(name), HelloLine(name)>>
    /\ pc' = "find"
    /\ UNCHANGED <<visitor_list, name, known_visitor, err, exit_code, iter, mark, list0, greeted, your_name, eof>>

\* println!("Hello {}", name); println!("{:?}", name);
Echo ==
    /\ pc = "echo"
    /\ out' = out \o <<HelloLine(name), DebugLine(name)>>
    /\ pc' = "find"
    /\ UNCHANGED <<visitor_list, name, known_visitor, err, exit_code, iter, mark, list0, greeted, your_name, eof>>

\* let known_visitor = visitor_list.iter().find(...)
Lookup ==
    /\ pc = "find"
    /\ known_visitor' = Find(visitor_list, name)
    /\ pc' = "match"
    /\ UNCHANGED <<visitor_list, name, out, err, exit_code, iter, mark, list0, greeted, your_name, eof>>

\* The Some arm leaving the loop after the greeting.
GreetExitMutant ==
    /\ pc = "match"
    /\ known_visitor # 0
    /\ out' = out \o GreetVisitor(visitor_list[known_visitor])
    /\ greeted' = Append(greeted,
           [key |-> name, idx |-> known_visitor, entry |-> visitor_list[known_visitor],
            lines |-> GreetVisitor(visitor_list[known_visitor]), len |-> Len(visitor_list)])
    /\ pc' = "dump"
    /\ UNCHANGED <<visitor_list, name, known_visitor, err, exit_code, iter, mark, list0, your_name, eof>>

\* Some(visitor) => visitor.greet_visitor()
Greet ==
    /\ pc = "match"
    /\ known_visitor # 0
    /\ out' = out \o GreetVisitor(visitor_list[known_visitor])
    /\ greeted' = Append(greeted,
           [key |-> name, idx |-> known_visitor, entry |-> visitor_list[known_visitor],
            lines |-> GreetVisitor(visitor_list[known_visitor]), len |-> Len(visitor_list)])
    /\ pc' = "prompt"
    /\ UNCHANGED <<visitor_list, name, known_visitor, err, exit_code, iter, mark, list0, your_name, eof>>

\* The None arm pushing before it tests is_empty.
BreakPushMutant ==
    /\ pc = "match"
    /\ known_visitor = 0
    /\ name = <<>>
    /\ visitor_list' = Append(visitor_list, NewVisitor(name, "New friend", Probation, 0))
    /\ pc' = "dump"
    /\ UNCHANGED <<name, known_visitor, out, err, exit_code, iter, mark, list0, greeted, your_name, eof>>

\* The None arm going on with the loop where it should leave it.
BreakContinueMutant ==
    /\ pc = "match"
    /\ known_visitor = 0
    /\ name = <<>>
    /\ pc' = "prompt"
    /\ UNCHANGED <<visitor_list, name, known_visitor, out, err, exit_code, iter, mark, list0, greeted, your_name, eof>>

\* None => if name.is_empty() { break; }
Break ==
    /\ pc = "match"
    /\ known_visitor = 0
    /\ name = <<>>
    /\ pc' = "dump"
    /\ UNCHANGED <<visitor_list, name, known_visitor, out, err, exit_code, iter, mark, list0, greeted, your_name, eof>>

\* The None/non-empty arm inserting at the front instead of pushing at the back.
PushFrontMutant ==
    /\ pc = "match"
    /\ known_visitor = 0
    /\ name # <<>>
    /\ out' = Append(out, NotOnListLine(name))
    /\ visitor_list' = <<NewVisitor(name, "New friend", Probation, 0)>> \o visitor_list
    /\ pc' = "prompt"
    /\ UNCHANGED <<name, known_visitor, err, exit_code, iter, mark, list0, greeted, your_name, eof>>

\* The None arm without the is_empty test.
PushAnyNameMutant ==
    /\ pc = "match"
    /\ known_visitor = 0
    /\ out' = Append(out, NotOnListLine(name))
    /\ visitor_list' = Append(visitor_list, NewVisitor(name, "New friend", Probation, 0))
    /\ pc' = "prompt"
    /\ UNCHANGED <<name, known_visitor, err, exit_code, iter, mark, list0, greeted, your_name, eof>>

\* None => else { println!("{} is not on the visitor list.", name); visitor_list.push(..) }
Push ==
    /\ pc = "match"
    /\ known_visitor = 0
    /\ name # <<>>
    /\ out' = Append(out, NotOnListLine(name))
    /\ visitor_list' = Append(visitor_list, NewVisitor(name, "New friend", Probation, 0))
    /\ pc' = "prompt"
    /\ UNCHANGED <<name, known_visitor, err, exit_code, iter, mark, list0, greeted, your_name, eof>>

\* println!("The final list of visitors:"); println!("{:#?}", visitor_list); return from main
Dump ==
    /\ pc = "dump"
    /\ out' = out \o <<FinalHeaderLine, DumpLine(visitor_list)>>
    /\ exit_code' = SuccessExit
    /\ pc' = "done"
    /\ UNCHANGED <<visitor_list, name, known_visitor, err, iter, mark, list0, greeted, your_name, eof>>

Next ==
    \/ Prompt
    \/ ReadName
    \/ ReadFail
    \/ Echo
    \/ Lookup
    \/ Greet
    \/ Break
    \/ Push
    \/ Dump

Spec == Init /\ [][Next]_vars

\* The steps main takes on its own: everything but the blocking read.  The
\* program is one thread of straight-line code, so an enabled step is taken.
Fairness ==
    /\ WF_vars(Prompt)
    /\ WF_vars(Echo)
    /\ WF_vars(Lookup)
    /\ WF_vars(Greet)
    /\ WF_vars(Break)
    /\ WF_vars(Push)
    /\ WF_vars(Dump)

SpecLive == Init /\ [][Next]_vars /\ Fairness

----------------------------------------------------------------------------
(* Function-level specification: one pass of lookup and branch of the loop *)
(* body, over every registry and key of a bounded set.                     *)

FnNames == {<<"w">>, <<"b">>}
FnKeys == FnNames \cup {<<"x">>, <<>>}
FnAges == {-128, 0, DrinkingAge - 1, DrinkingAge, 127}
FnActions == {Accept, AcceptWithNote("note"), Refuse, Probation}

FnVisitors ==
    {NewVisitor(n, "greeting", a, g) : n \in FnNames, a \in FnActions, g \in FnAges}

FnRegistries == SeqsUpTo(FnVisitors, MaxReg)

\* The state of main after the echo of an iteration, with any registry and key.
InitFn ==
    /\ visitor_list \in FnRegistries
    /\ name \in FnKeys
    /\ pc = "find"
    /\ known_visitor = 0
    /\ out = <<PromptLine, HelloLine(name), DebugLine(name)>>
    /\ err = <<>>
    /\ exit_code = NoExit
    /\ iter = 1
    /\ mark = 0
    /\ list0 = visitor_list
    /\ greeted = <<>>
    /\ your_name = <<>>
    /\ eof = FALSE

NextFn ==
    \/ Lookup
    \/ Greet
    \/ Break
    \/ Push

SpecFn == InitFn /\ [][NextFn]_vars

----------------------------------------------------------------------------
(* Function-level specification of the name normalizer: the return         *)
(* expression of what_is_your_name, over every line of a bounded set.      *)

\* Lines with tabs, punctuation, digits and inner whitespace.
NormSamples ==
    { <<"\t">>,
      <<"\r", "\n">>,
      <<"\t", "W", ".", "w", "!", "\n">>,
      <<"B", " ", "\t", "F", "\r", "\n">>,
      <<" ", "S", "4", "-", "b", " ", " ">> }

NormLines == RawLines \cup NormSamples

\* The state of what_is_your_name after read_line has returned Ok, in the
\* first iteration.
InitNorm ==
    /\ your_name \in NormLines
    /\ eof = (your_name = <<>>)
    /\ visitor_list = SeedList
    /\ pc = "normalize"
    /\ name = <<>>
    /\ known_visitor = 0
    /\ out = <<PromptLine>>
    /\ err = <<>>
    /\ exit_code = NoExit
    /\ iter = 1
    /\ mark = 0
    /\ list0 = SeedList
    /\ greeted = <<>>

\* your_name.trim().to_lowercase(), evaluated while your_name is in scope
NormalizeName ==
    /\ pc = "normalize"
    /\ name' = Normalize(your_name)
    /\ pc' = "return"
    /\ UNCHANGED <<visitor_list, known_visitor, out, err, exit_code, iter, mark, list0, greeted, your_name, eof>>

NextNorm == NormalizeName

SpecNorm == InitNorm /\ [][NextNorm]_vars

----------------------------------------------------------------------------
(* Vocabulary of the properties *)

\* What the current iteration has printed so far.
IterOut == SubSeq(out, mark + 1, Len(out))

\* What the current iteration has printed after the prompt and the two echo lines.
BranchOut == SubSeq(out, mark + 4, Len(out))

NoEntryNamed(list, key) == \A i \in 1..Len(list) : list[i].name # key

IsPrefix(s, t) == Len(s) <= Len(t) /\ SubSeq(t, 1, Len(s)) = s

\* An iteration has run to its end and the loop is back at its head.
IterationDone == pc = "prompt" /\ iter > 0

\* The iteration that just ended found its key in the registry.
FoundDone == IterationDone /\ ~NoEntryNamed(list0, name)

\* The visitor record the loop builds for an unknown name.
Newcomer(key) ==
    [name |-> key, greeting |-> "New friend", action |-> [tag |-> "Probation"], age |-> 0]

----------------------------------------------------------------------------
(* Properties of the main loop *)

\* C1: an iteration whose key is non-empty and matches no registry entry ends
\* with the registry it started with, plus exactly one entry at the end:
\* name = the key, greeting "New friend", action Probation, age 0.  The
\* entries present before the iteration keep their index and content, and
\* nothing is appended before the branch is taken.
C1_UnknownNameAppended ==
    /\ (IterationDone /\ name # <<>> /\ NoEntryNamed(list0, name)) =>
          /\ Len(visitor_list) = Len(list0) + 1
          /\ visitor_list[Len(visitor_list)] = Newcomer(name)
          /\ \A i \in 1..Len(list0) : visitor_list[i] = list0[i]
    /\ pc \in {"read", "echo", "find", "match"} => visitor_list = list0

C1_Witness ==
    /\ IterationDone
    /\ name = <<"w", " ", "w">>
    /\ NoEntryNamed(list0, name)
    /\ Len(list0) = 4
    /\ Len(visitor_list) = 5

\* C2: an iteration whose key is empty never returns to the head of the loop:
\* its lookup finds nothing, it leaves the registry as it was when the
\* iteration started, and the last line printed by the process is the dump of
\* exactly that registry, preceded by the dump's header.
C2_EmptyKeyTerminates ==
    /\ IterationDone => name # <<>>
    /\ (pc = "match" /\ name = <<>>) => known_visitor = 0
    /\ (pc \in {"echo", "find", "match", "dump", "done"} /\ name = <<>>) => visitor_list = list0
    /\ pc \in {"dump", "done"} => name = <<>>
    /\ pc = "done" =>
          /\ Len(out) = mark + 5
          /\ out[Len(out) - 1] = FinalHeaderLine
          /\ out[Len(out)] = DumpLine(list0)

C2_Witness ==
    /\ pc = "done"
    /\ name = <<>>
    /\ Len(list0) = 5
    /\ out[Len(out)].list = list0

\* C3: an iteration whose key is in the registry leaves the registry unchanged,
\* and any two greet_visitor calls of one run for the same key are for the same
\* index, the same entry, and print the same lines.
C3_KnownNameIdempotent ==
    /\ FoundDone => visitor_list = list0
    /\ \A i \in 1..Len(greeted) : \A j \in 1..Len(greeted) :
          greeted[i].key = greeted[j].key =>
             /\ greeted[i].idx = greeted[j].idx
             /\ greeted[i].entry = greeted[j].entry
             /\ greeted[i].lines = greeted[j].lines
    /\ FoundDone =>
          /\ greeted # <<>>
          /\ greeted[Len(greeted)].key = name
          /\ BranchOut = greeted[Len(greeted)].lines

C3_Witness ==
    \E i \in 1..Len(greeted) : \E j \in 1..Len(greeted) :
        /\ i < j
        /\ greeted[i].key = greeted[j].key
        /\ greeted[i].len < greeted[j].len
        /\ FoundDone

----------------------------------------------------------------------------
(* Properties of the action dispatcher and of the lookup *)

\* The entry the iteration that just ended has matched.
Matched == visitor_list[known_visitor]

\* The iteration that just ended has called greet_visitor.
GreetDone == IterationDone /\ known_visitor # 0

HasAlcoholLine(lines) == \E i \in 1..Len(lines) : lines[i].fmt = "Do not serve alcohol to {}"

\* C4 as claimed: for a matched visitor whose action is Refuse, the branch
\* prints the refusal line "Do not allow {name} in!" and nothing else.
C4_RefuseOnlyRefusalLine ==
    (GreetDone /\ Matched.action.tag = "Refuse") =>
        BranchOut = <<RefuseLine(Matched.name)>>

\* C4 as amended: for a matched visitor whose action is Refuse, the branch
\* prints the visitor's greeting text and then the refusal line
\* "Do not allow {name} in!", and nothing else: no welcome line and no other
\* dispatcher line.
C4_RefuseGreetingThenRefusal ==
    (GreetDone /\ Matched.action.tag = "Refuse") =>
        /\ BranchOut = <<TextLine(Matched.greeting), RefuseLine(Matched.name)>>
        /\ Matched.name = name

C4_Witness ==
    /\ GreetDone
    /\ Matched.action.tag = "Refuse"
    /\ name = <<"f", "r", "e", "d">>
    /\ Len(BranchOut) = 2

\* C5: the iteration prints a "Do not serve alcohol to {name}" line if and
\* only if it matched a visitor whose action is AcceptWithNote and whose age
\* is below 21; the branch then prints exactly the greeting, the welcome line,
\* the note and the alcohol line, in this order.  Accept, Probation and Refuse
\* visitors, and iterations that match nobody, never get the line.
C5_AlcoholLineIffYoungWithNote ==
    /\ IterationDone =>
          (HasAlcoholLine(IterOut) <=>
              /\ known_visitor # 0
              /\ Matched.action.tag = "AcceptWithNote"
              /\ Matched.age < 21)
    /\ (GreetDone /\ Matched.action.tag = "AcceptWithNote" /\ Matched.age < 21) =>
          BranchOut = << TextLine(Matched.greeting), WelcomeLine(Matched.name),
                         TextLine(Matched.action.note), AlcoholLine(Matched.name) >>
    /\ pc \in {"read", "echo", "find", "match", "dump", "done", "panicked"} =>
          ~HasAlcoholLine(IterOut)

C5_Witness ==
    /\ GreetDone
    /\ Matched.action.tag = "AcceptWithNote"
    /\ Matched.age = 20
    /\ HasAlcoholLine(BranchOut)
    /\ Len(BranchOut) = 4

\* C6: for a matched visitor whose action is Accept the branch prints the
\* visitor's greeting text and then the welcome line naming the visitor, and
\* nothing else, whatever the age.
C6_AcceptGreetingThenWelcome ==
    (GreetDone /\ Matched.action.tag = "Accept") =>
        BranchOut = <<TextLine(Matched.greeting), WelcomeLine(Matched.name)>>

C6_Witness ==
    /\ GreetDone
    /\ Matched.action.tag = "Accept"
    /\ Matched.age < 21
    /\ Len(BranchOut) = 2

\* C7: the lookup returns the entry with the smallest index whose name equals
\* the key, and returns None exactly when no entry has that name, also when
\* the registry holds the name more than once.
C7_LookupFirstMatch ==
    pc = "match" =>
        /\ known_visitor = 0 <=> NoEntryNamed(visitor_list, name)
        /\ known_visitor # 0 =>
              /\ known_visitor \in 1..Len(visitor_list)
              /\ visitor_list[known_visitor].name = name
              /\ \A i \in 1..(known_visitor - 1) : visitor_list[i].name # name

C7_Witness ==
    /\ pc = "match"
    /\ known_visitor = 1
    /\ Len(visitor_list) = 2
    /\ visitor_list[2].name = name
    /\ visitor_list[2] # visitor_list[1]

----------------------------------------------------------------------------
(* Properties of the run as a whole *)

Bert ==
    [name |-> <<"b", "e", "r", "t">>, greeting |-> "Hello Bert, enjoy your treehouse.",
     action |-> [tag |-> "Accept"], age |-> 45]

Steve ==
    [name |-> <<"s", "t", "e", "v", "e">>, greeting |-> "Hi Steve. Your milk is in the fridge.",
     action |-> [tag |-> "AcceptWithNote", note |-> "Lactose-free milk is in the fridge"],
     age |-> 15]

Fred ==
    [name |-> <<"f", "r", "e", "d">>, greeting |-> "Wow, who invited Fred?",
     action |-> [tag |-> "Refuse"], age |-> 30]

\* C8: the registry is append-only.  Every step leaves the registry a prefix
\* of the registry after the step and adds at most one entry; an iteration
\* adds at most one entry to the registry it started with; and bert, steve and
\* fred stay at the first three positions, unchanged.
C8_RegistryAppendOnly ==
    /\ [][ /\ IsPrefix(visitor_list, visitor_list')
           /\ Len(visitor_list') <= Len(visitor_list) + 1 ]_vars
    /\ [](/\ IsPrefix(list0, visitor_list)
          /\ Len(visitor_list) <= Len(list0) + 1
          /\ IsPrefix(<<Bert, Steve, Fred>>, visitor_list))

C8_Witness ==
    /\ Len(visitor_list) = 5
    /\ Len(list0) = 4
    /\ IterationDone

\* C9: the loop is left only by a failed read or in an iteration whose key is
\* empty; the branch of an iteration whose key is not empty, found or not,
\* leads back to the prompt, which leads to the next read.
C9_OnlyEmptyKeyOrReadFailureExits ==
    /\ [][(Running /\ ~Running') => (pc' = "panicked" \/ (name = <<>> /\ pc' = "dump"))]_vars
    /\ [][(pc = "match" /\ name # <<>>) => (pc' = "prompt" /\ Running')]_vars
    /\ [][pc = "prompt" => (pc' = "read" /\ out' = Append(out, PromptLine))]_vars
    /\ []((pc \in {"dump", "done"}) => name = <<>>)

C9_Witness ==
    /\ pc = "read"
    /\ iter = 3
    /\ name = <<"f", "r", "e", "d">>
    /\ Len(visitor_list) = 4

\* C10: a failed read ends the process in the iteration of the read, with the
\* fixed message on standard error and an exit status that is not success.
\* Nothing is printed after the prompt of that iteration, the registry is as
\* the iteration found it, the final dump is not printed, and the process
\* takes no further step: the read is not tried again.
C10_ReadFailureAborts ==
    /\ err # <<>> <=> pc = "panicked"
    /\ pc = "panicked" =>
          /\ err = <<"failed to readline">>
          /\ exit_code \notin {NoExit, 0}
          /\ Len(out) = mark + 1
          /\ out[Len(out)] = PromptLine
          /\ visitor_list = list0
          /\ \A i \in 1..Len(out) :
                out[i].fmt \notin {"The final list of visitors:", "{:#?}"}
          /\ ~ENABLED Next
    /\ exit_code = 0 => pc = "done"

C10_Witness ==
    /\ pc = "panicked"
    /\ iter = 3
    /\ Len(visitor_list) = 5

----------------------------------------------------------------------------
(* Termination *)

DumpLines == {i \in 1..Len(out) : out[i].fmt = "{:#?}"}

\* C11: once a read has succeeded with a line whose normalized form is empty,
\* the program reaches Terminated.  In Terminated the exit status is success,
\* the dump has been printed exactly once, it is the last line of the output,
\* it follows its header, and it carries every entry of the registry with all
\* its fields.
C11_EmptyLineLeadsToDumpAndSuccess ==
    /\ (pc = "echo" /\ name = <<>>) ~> Terminated
    /\ [](Terminated =>
            /\ exit_code = 0
            /\ DumpLines = {Len(out)}
            /\ out[Len(out)] = [fmt |-> "{:#?}", text |-> "", name |-> <<>>, list |-> visitor_list]
            /\ out[Len(out) - 1].fmt = "The final list of visitors:")
    /\ [](~Terminated => DumpLines = {})

C11_Witness ==
    /\ Terminated
    /\ Len(visitor_list) = 5
    /\ exit_code = 0
    /\ DumpLines = {Len(out)}

----------------------------------------------------------------------------
(* The name normalizer *)

WhitespaceChars == {" ", "\t", "\n", "\r"}

\* The lower-case form of the letters that occur in the lines of the model.
LowerCaseOf(c) ==
    IF c = "B" THEN "b" ELSE IF c = "F" THEN "f" ELSE IF c = "S" THEN "s"
    ELSE IF c = "W" THEN "w" ELSE c

\* key is line[i..j], lower-cased character by character, where everything
\* outside i..j is whitespace and line[i], line[j] are not.
IsTrimmedLowered(line, key) ==
    \E i \in 1..(Len(line) + 1) : \E j \in 0..Len(line) :
        /\ j >= i - 1
        /\ \A p \in 1..(i - 1) : line[p] \in WhitespaceChars
        /\ \A p \in (j + 1)..Len(line) : line[p] \in WhitespaceChars
        /\ i <= j => (line[i] \notin WhitespaceChars /\ line[j] \notin WhitespaceChars)
        /\ Len(key) = j - i + 1
        /\ \A q \in 1..Len(key) : key[q] = LowerCaseOf(line[i + q - 1])

\* C12: the normalizer returns the line without its leading and trailing
\* whitespace (the line terminator included), lower-cased, and otherwise
\* unchanged: inner whitespace and punctuation stay.  "  Bert\n" gives "bert";
\* an empty line or a line of whitespace gives the empty key.
C12_NormalizeTrimsAndLowers ==
    pc = "return" =>
        /\ IsTrimmedLowered(your_name, name)
        /\ your_name = <<" ", " ", "B", "e", "r", "t", "\n">> => name = <<"b", "e", "r", "t">>
        /\ (\A p \in 1..Len(your_name) : your_name[p] \in WhitespaceChars) => name = <<>>
        /\ your_name = <<"\t", "W", ".", "w", "!", "\n">> => name = <<"w", ".", "w", "!">>
        /\ your_name = <<"B", " ", "\t", "F", "\r", "\n">> => name = <<"b", " ", "\t", "f">>

C12_Witness ==
    /\ pc = "return"
    /\ your_name = <<" ", " ", "B", "e", "r", "t", "\n">>
    /\ name = <<"b", "e", "r", "t">>

----------------------------------------------------------------------------
(* Order of the events of an iteration *)

\* The prompt and the two echo lines of the current iteration.
Preamble == <<PromptLine, HelloLine(name), DebugLine(name)>>

\* C13: in every iteration, the terminating one included, the prompt is
\* printed first, then one line is read and normalized, then the name is
\* echoed in plain and then in debug form, then the lookup is made, and only
\* then a dispatcher message, the not-on-the-list message with the append, or
\* the termination follows.
C13_IterationOrder ==
    /\ [](pc \in {"read", "echo", "panicked"} => IterOut = <<PromptLine>>)
    /\ [](pc \in {"find", "match", "dump"} => IterOut = Preamble)
    /\ [](IterationDone =>
            /\ Len(IterOut) > 3
            /\ SubSeq(IterOut, 1, 3) = Preamble
            /\ \A i \in 4..Len(IterOut) :
                  IterOut[i].fmt \notin {PromptLine.fmt, "Hello {}", "{:?}"})
    /\ [](pc = "done" => SubSeq(IterOut, 1, 3) = Preamble /\ Len(IterOut) = 5)
    /\ [][name' # name => (pc = "read" /\ pc' = "echo")]_vars
    /\ [][known_visitor' # known_visitor => (pc = "find" /\ pc' = "match")]_vars
    /\ [][(visitor_list' # visitor_list \/ (pc # "dump" /\ pc' = "dump")) => pc = "match"]_vars
    /\ [][Len(out') > mark' + 3 => pc \in {"match", "dump"}]_vars

C13_Witness ==
    /\ pc = "dump"
    /\ iter = 2
    /\ name = <<>>
    /\ IterOut = <<PromptLine, HelloLine(<<>>), DebugLine(<<>>)>>
    /\ Len(visitor_list) = 4

----------------------------------------------------------------------------
(* Newcomers *)

\* The key of the iteration that just ended was appended by an earlier
\* iteration of this run.
AppendedEarlier == \E i \in 4..Len(list0) : list0[i].name = name

\* C14: the iteration in which a non-empty key is unknown prints
\* "{k} is not on the visitor list." and nothing else after the echo, and
\* appends; every later iteration with that key finds it, prints "New friend"
\* and then "{k} is now a probationary member", and appends nothing.
C14_NewcomerThenProbation ==
    /\ (IterationDone /\ NoEntryNamed(list0, name)) =>
          /\ BranchOut = <<[fmt |-> "{} is not on the visitor list.", text |-> "",
                            name |-> name, list |-> <<>>]>>
          /\ Len(visitor_list) = Len(list0) + 1
          /\ visitor_list[Len(visitor_list)].name = name
    /\ (IterationDone /\ AppendedEarlier) =>
          /\ known_visitor > 3
          /\ BranchOut = <<[fmt |-> "{}", text |-> "New friend", name |-> <<>>, list |-> <<>>],
                           [fmt |-> "{} is now a probationary member", text |-> "",
                            name |-> name, list |-> <<>>]>>
          /\ visitor_list = list0

C14_Witness ==
    /\ IterationDone
    /\ AppendedEarlier
    /\ name = <<"w", "w">>
    /\ Len(BranchOut) = 2
    /\ Len(list0) = 4

----------------------------------------------------------------------------
(* Case-insensitive lookup *)

\* The part of a line from its first to its last non-whitespace character.
Core(line) ==
    LET inner == {p \in 1..Len(line) : line[p] \notin WhitespaceChars}
    IN  IF inner = {} THEN <<>>
        ELSE SubSeq(line, CHOOSE p \in inner : \A q \in inner : p <= q,
                          CHOOSE p \in inner : \A q \in inner : p >= q)

SameIgnoringCase(a, b) ==
    /\ Len(a) = Len(b)
    /\ \A q \in 1..Len(a) : LowerCaseOf(a[q]) = LowerCaseOf(b[q])

IsLowerCase(a) == \A q \in 1..Len(a) : LowerCaseOf(a[q]) = a[q]

\* Two lines that differ only in letter case and in leading/trailing whitespace.
SameLine(r1, r2) == SameIgnoringCase(Core(r1), Core(r2))

\* C15: every name in the registry is in lower case, seed names and appended
\* names alike; two lines that differ only in letter case and in leading and
\* trailing whitespace give the same key; and the lookup finds an entry exactly
\* when some entry's name equals the key up to letter case.  What an iteration
\* does after the read depends on the line through the key only, so such lines
\* give the same result, branch and registry.
C15_LookupIgnoresCase ==
    /\ \A i \in 1..Len(visitor_list) : IsLowerCase(visitor_list[i].name)
    /\ pc \in {"echo", "find", "match"} => IsLowerCase(name)
    /\ pc = "match" =>
          (known_visitor # 0 <=>
              \E i \in 1..Len(visitor_list) : SameIgnoringCase(visitor_list[i].name, name))
    /\ iter = 0 =>
          \A r1 \in RawLines : \A r2 \in RawLines :
              SameLine(r1, r2) => Normalize(r1) = Normalize(r2)

C15_Witness ==
    /\ pc = "match"
    /\ known_visitor = 1
    /\ name = <<"b", "e", "r", "t">>
    /\ visitor_list[1].name = name
    /\ Len(visitor_list) = 4

----------------------------------------------------------------------------
(* Names in the registry *)

\* C16: the names in the registry are pairwise distinct, so the first match of
\* a lookup is the only match.
C16_NamesDistinct ==
    /\ \A i \in 1..Len(visitor_list) : \A j \in 1..Len(visitor_list) :
          visitor_list[i].name = visitor_list[j].name => i = j
    /\ (pc = "match" /\ known_visitor # 0) =>
          {i \in 1..Len(visitor_list) : visitor_list[i].name = name} = {known_visitor}

C16_Witness ==
    /\ Len(visitor_list) = 5
    /\ pc = "match"
    /\ known_visitor = 4

\* C17: no entry of the registry has the empty name, so the lookup of the
\* empty key finds nothing, no visitor is ever greeted under the empty key,
\* and the branch of an iteration with the empty key leaves the loop without
\* printing.
C17_NoEmptyName ==
    /\ [](\A i \in 1..Len(visitor_list) : visitor_list[i].name # <<>>)
    /\ []((pc = "match" /\ name = <<>>) => known_visitor = 0)
    /\ [](\A i \in 1..Len(greeted) : greeted[i].key # <<>>)
    /\ [][(pc = "match" /\ name = <<>>) => (pc' = "dump" /\ out' = out)]_vars

C17_Witness ==
    /\ pc = "dump"
    /\ name = <<>>
    /\ Len(visitor_list) = 5
    /\ known_visitor = 0

----------------------------------------------------------------------------
(* End of input *)

\* C18: a read that returns Ok(0) at the end of the input gives the empty key
\* and is no failure: nothing is written to standard error, and the program
\* goes through the echo and the final dump to a success exit; it neither
\* reads again nor stays in the loop.
C18_EndOfInputTerminates ==
    /\ eof ~> Terminated
    /\ [](eof =>
            /\ name = <<>>
            /\ err = <<>>
            /\ pc \in {"echo", "find", "match", "dump", "done"})
    /\ []((eof /\ Terminated) =>
            /\ exit_code = 0
            /\ IterOut = <<PromptLine, HelloLine(<<>>), DebugLine(<<>>),
                           FinalHeaderLine, DumpLine(list0)>>)
    /\ [][eof => pc' # "read"]_vars

C18_Witness ==
    /\ eof
    /\ Terminated
    /\ exit_code = 0
    /\ Len(visitor_list) = 5

====
